---- MODULE Spec2Model ----
(***************************************************************************)
(* Model of the meeting copilot suggestion pipeline of tayane1/meetin:     *)
(* Model Gateway, Output Validator, Deduplicator/Merge Engine,             *)
(* Orchestrator (runs and acceptance) and the accept/reject/edit views.    *)
(*                                                                         *)
(* Conventions.  A text is a sequence of one-character strings, so that    *)
(* lower-casing, punctuation stripping, whitespace collapsing and slicing  *)
(* are computed and not assumed.  A JSON object is a TLA+ record whose     *)
(* DOMAIN is the set of keys that are present.  JSON null is Null.  A      *)
(* dedupe key f"{meeting_id}:{item_type}:{normalized[:100]}" is the tuple  *)
(* <<meeting_id, item_type, normalized[:100]>> (the normalized text holds  *)
(* no ':').  An exception is named by its Python class.                    *)
(***************************************************************************)
EXTENDS Integers, Sequences, FiniteSets, TLC

\* ------------------------------------------------------------------ bounds
\* Most rows the suggestion table may hold (guards of the creating actions).
MaxSuggestions == 3
\* Most Run records (guards of the actions that start an attempt).
MaxRuns == 2
\* A segment is finalized only while the meeting has fewer segments than this
\* (guard of SegmentFinalized).
MaxSegments == 11
\* Most recorded calls of the merge engine (guard of MergeEngineCall).
MaxCalls == 3
\* Number of concurrent review requests and of concurrent attempts.
NumClients == 2
NumWorkers == 2

\* ------------------------------------------------------- program constants
\* normalized[:100] in generate_dedupe_key
KeyLen == 100
\* stop_after_attempt(3) on generate_copilot_output
StopAfterAttempt == 3
\* REALTIME_SEGMENT_COUNT = 50
REALTIME_SEGMENT_COUNT == 50
\* len(recent_segments) >= 10
MinSegmentsForProcessing == 10

Null == "null"

Min(a, b) == IF a < b THEN a ELSE b

\* --------------------------------------------------------------- text
\* str.lower() on the characters the model uses
LowerChar(c) ==
  CASE c = "F" -> "f"
    [] c = "A" -> "a"
    [] OTHER -> c

Lower(s) == [i \in 1..Len(s) |-> LowerChar(s[i])]

\* \s of the regular expressions
IsSpaceChar(c) == c \in {" ", "\t"}

\* \w of the regular expressions: letters, digits and the underscore
IsWordChar(c) == c \in {"a", "b", "c", "d", "f", "i", "k", "o", "t", "x", "A", "F", "1", "_"}

\* re.sub(r'[^\w\s]', '', text)
StripPunctuation(s) == SelectSeq(s, LAMBDA c : IsWordChar(c) \/ IsSpaceChar(c))

\* re.sub(r'\s+', ' ', text)
RECURSIVE CollapseWhitespace(_)
CollapseWhitespace(s) ==
  IF s = <<>> THEN <<>>
  ELSE IF IsSpaceChar(Head(s))
       THEN IF Len(s) > 1 /\ IsSpaceChar(s[2])
            THEN CollapseWhitespace(Tail(s))
            ELSE <<" ">> \o CollapseWhitespace(Tail(s))
       ELSE <<Head(s)>> \o CollapseWhitespace(Tail(s))

RECURSIVE LStrip(_)
LStrip(s) == IF s # <<>> /\ IsSpaceChar(Head(s)) THEN LStrip(Tail(s)) ELSE s

RECURSIVE RStrip(_)
RStrip(s) ==
  IF s # <<>> /\ IsSpaceChar(s[Len(s)]) THEN RStrip(SubSeq(s, 1, Len(s) - 1)) ELSE s

\* str.strip()
Strip(s) == LStrip(RStrip(s))

\* s[:n]
Take(s, n) == SubSeq(s, 1, Min(n, Len(s)))

\* dict.get(key, default)
Get(d, key, default) == IF key \in DOMAIN d THEN d[key] ELSE default

\* dict.update: the keys of new overlaid on old
Update(old, new) ==
  [k \in (DOMAIN old) \cup (DOMAIN new) |-> IF k \in DOMAIN new THEN new[k] ELSE old[k]]

\* the range of a sequence
Range(s) == {s[i] : i \in 1..Len(s)}

\* ------------------------------------------------------------ validator
ItemArrays == <<"action_items", "decisions", "risks", "open_questions">>

RequiredFields == <<"language", "action_items", "decisions", "risks", "open_questions">>

\* isinstance(value, list) for the value of the "language" key: a JSON list
\* is written with its brackets, a JSON string without
IsListValue(v) == v \in {"[en]", "[]"}

Levels == {"low", "medium", "high"}

\* CopilotValidator._validate_evidence: TRUE when no ValidationError is raised
ValidateEvidence(evidence) ==
  /\ Len(evidence) # 0
  /\ \A i \in 1..Len(evidence) :
       /\ {"segment_id", "start_ms", "end_ms", "quote"} \subseteq DOMAIN evidence[i]
       /\ ~(evidence[i].start_ms >= evidence[i].end_ms)
       /\ Len(Strip(evidence[i].quote)) # 0

ValidateActionItem(item) ==
  /\ {"title", "description", "assignee", "priority", "evidence"} \subseteq DOMAIN item
  /\ "speaker_label" \in DOMAIN item.assignee
  /\ item.priority \in Levels
  /\ ValidateEvidence(item.evidence)

ValidateDecision(item) ==
  /\ {"text", "evidence"} \subseteq DOMAIN item
  /\ ValidateEvidence(item.evidence)

ValidateRisk(item) ==
  /\ {"text", "severity", "evidence"} \subseteq DOMAIN item
  /\ item.severity \in Levels
  /\ ValidateEvidence(item.evidence)

ValidateQuestion(item) ==
  /\ {"text", "evidence"} \subseteq DOMAIN item
  /\ ValidateEvidence(item.evidence)

ValidateItem(item, item_type) ==
  CASE item_type = "action_items" -> ValidateActionItem(item)
    [] item_type = "decisions" -> ValidateDecision(item)
    [] item_type = "risks" -> ValidateRisk(item)
    [] item_type = "open_questions" -> ValidateQuestion(item)
    [] OTHER -> TRUE

ValidateSchema(output) ==
  /\ \A i \in 1..Len(RequiredFields) : RequiredFields[i] \in DOMAIN output
  /\ ~IsListValue(output.language) /\ output.language \in {"en", "fr"}
  /\ \A a \in 1..Len(ItemArrays) :
       \A i \in 1..Len(output[ItemArrays[a]]) :
          ValidateItem(output[ItemArrays[a]][i], ItemArrays[a])

\* titles = [item.get("title", "").lower() for item in output[item_type]]
Titles(items) == [i \in 1..Len(items) |-> Lower(Get(items[i], "title", <<>>))]

\* len(titles) != len(set(titles)) raises
ValidateBusinessRules(output) ==
  \A a \in 1..Len(ItemArrays) :
     LET titles == Titles(output[ItemArrays[a]])
     IN Len(titles) = Cardinality(Range(titles))

AllowedFields(item_type) ==
  CASE item_type = "action_items" ->
         {"title", "description", "assignee", "due_date", "priority", "evidence"}
    [] item_type = "decisions" -> {"text", "evidence"}
    [] item_type = "risks" -> {"text", "severity", "evidence"}
    [] OTHER -> {"text", "owner", "evidence"}

SanitizeItem(item, item_type) ==
  [k \in (DOMAIN item) \cap AllowedFields(item_type) |-> item[k]]

SanitizeArray(items, item_type) ==
  [i \in 1..Len(items) |-> SanitizeItem(items[i], item_type)]

SanitizeOutput(output) ==
  [language |-> output.language,
   action_items |-> SanitizeArray(output.action_items, "action_items"),
   decisions |-> SanitizeArray(output.decisions, "decisions"),
   risks |-> SanitizeArray(output.risks, "risks"),
   open_questions |-> SanitizeArray(output.open_questions, "open_questions")]

\* CopilotValidator.validate_output: the sanitized output, or ValidationError
ValidateOutput(output) ==
  IF ValidateSchema(output) /\ ValidateBusinessRules(output)
  THEN [ok |-> TRUE, exc |-> "none", value |-> SanitizeOutput(output)]
  ELSE [ok |-> FALSE, exc |-> "ValidationError", value |-> <<>>]

\* -------------------------------------------------------------- gateway
\* A raw response of the reasoning service: the characters pre, then the text
\* of the JSON document doc (absent when has_doc is FALSE), then post.
IsBlank(s) == \A i \in 1..Len(s) : IsSpaceChar(s[i])

\* json.loads(raw_output) succeeds
DirectParseOk(raw) == raw.has_doc /\ IsBlank(raw.pre) /\ IsBlank(raw.post)

\* raw_output[raw_output.find('{'):raw_output.rfind('}') + 1] is the document:
\* its own braces are the first '{' and the last '}' of the text
ExtractParseOk(raw) ==
  /\ raw.has_doc
  /\ "{" \notin Range(raw.pre)
  /\ "}" \notin Range(raw.post)

\* LLMGateway._validate_output_schema: TRUE when no ValidationError is raised.
\* The item arrays of the model are always lists; "language" is a list only
\* when the response wrote it as one.
IsInstanceList(output, field) ==
  IF field = "language" THEN IsListValue(output[field]) ELSE TRUE

GatewayEvidenceOk(item) ==
  /\ "evidence" \in DOMAIN item
  /\ item.evidence # <<>>
  /\ \A i \in 1..Len(item.evidence) :
       {"segment_id", "quote"} \subseteq DOMAIN item.evidence[i]

ValidateOutputSchema(output) ==
  /\ \A i \in 1..Len(RequiredFields) :
       /\ RequiredFields[i] \in DOMAIN output
       /\ IsInstanceList(output, RequiredFields[i])
  /\ \A a \in 1..Len(ItemArrays) :
       \A i \in 1..Len(output[ItemArrays[a]]) :
          GatewayEvidenceOk(output[ItemArrays[a]][i])

\* LLMGateway._parse_and_validate_output: the parsed output, or ValidationError
ParseAndValidateOutput(raw) ==
  IF ~(DirectParseOk(raw) \/ ExtractParseOk(raw))
  THEN [ok |-> FALSE, exc |-> "ValidationError", value |-> <<>>]
  ELSE IF ~ValidateOutputSchema(raw.doc)
       THEN [ok |-> FALSE, exc |-> "ValidationError", value |-> <<>>]
       ELSE [ok |-> TRUE, exc |-> "none", value |-> raw.doc]

\* One execution of the body of generate_copilot_output on the outcome of
\* client.chat.completions.create: the exception that leaves the body
\* ("none" when it returns) with its message prefix, and the returned output.
GatewayBody(outcome, n_segments, language) ==
  CASE outcome.exc = "openai.RateLimitError" ->
         [exc |-> "LLMRateLimitError", msg |-> "Rate limit exceeded", value |-> <<>>]
    [] outcome.exc = "openai.APITimeoutError" ->
         [exc |-> "LLMTimeoutError", msg |-> "Request timeout", value |-> <<>>]
    [] outcome.exc = "openai.APIError" ->
         [exc |-> "LLMGatewayError", msg |-> "API error", value |-> <<>>]
    [] outcome.exc = "Exception" ->
         [exc |-> "LLMGatewayError", msg |-> "Unexpected error", value |-> <<>>]
    [] OTHER ->
         LET parsed == ParseAndValidateOutput(outcome.raw)
         IN IF parsed.ok
            THEN [exc |-> "none", msg |-> "",
                  value |-> Update(parsed.value,
                                   [metadata |-> [input_segments |-> n_segments,
                                                  language |-> language]])]
            ELSE [exc |-> "LLMGatewayError", msg |-> "Unexpected error", value |-> <<>>]

\* a predicate that retried on every exception
RetryIfException(exc) == exc # "none"

\* retry_if_exception_type((openai.RateLimitError, openai.APITimeoutError)),
\* applied by the decorator to the exception that leaves the body
RetryIfExceptionType(exc) == exc \in {"openai.RateLimitError", "openai.APITimeoutError"}

\* the decorator after attempt number attempt has raised exc: call the body
\* again, or let an exception reach the caller (tenacity raises RetryError when
\* it stops after the last attempt, the exception itself when it does not retry)
RetryDecision(exc, attempt) ==
  IF exc = "none" THEN [again |-> FALSE, exc |-> "none"]
  ELSE IF ~RetryIfExceptionType(exc) THEN [again |-> FALSE, exc |-> exc]
  ELSE IF attempt < StopAfterAttempt THEN [again |-> TRUE, exc |-> "none"]
  ELSE [again |-> FALSE, exc |-> "RetryError"]

\* an except clause that matched the base class only, and none of its subclasses
IsLLMGatewayErrorItself(exc) == exc = "LLMGatewayError"

\* class LLMTimeoutError(LLMGatewayError), class LLMRateLimitError(LLMGatewayError)
IsLLMGatewayError(exc) == exc \in {"LLMGatewayError", "LLMTimeoutError", "LLMRateLimitError"}

\* class LanguagePreference: the values Meeting.language_preference takes
LanguagePreference == {"en", "fr", "auto"}

\* LLMGateway._build_copilot_prompt: the language the prompt is written in.
\* The French text is chosen by "language == 'fr'", the English text by the
\* else branch; no value of language makes the builder raise.
BuildCopilotPrompt(language) ==
  [exc |-> "none", written_in |-> IF language = "fr" THEN "fr" ELSE "en"]

\* LLMGateway._get_system_prompt
GetSystemPrompt(language) == IF language = "fr" THEN "fr" ELSE "en"

\* LLMGateway.generate_copilot_output with its retry decorator: outcomes[n] is
\* what the reasoning service does at call number n
RECURSIVE GenerateCopilotOutput(_, _, _, _)
GenerateCopilotOutput(outcomes, n_segments, language, attempt) ==
  LET prompt == BuildCopilotPrompt(language)
      body == IF prompt.exc # "none"
              THEN [exc |-> "LLMGatewayError", msg |-> "Unexpected error", value |-> <<>>]
              ELSE GatewayBody(outcomes[attempt], n_segments, language)
      next == RetryDecision(body.exc, attempt)
  IN IF next.again
     THEN GenerateCopilotOutput(outcomes, n_segments, language, attempt + 1)
     ELSE [exc |-> next.exc, msg |-> body.msg, value |-> body.value,
           prompt |-> prompt, system |-> GetSystemPrompt(language), attempts |-> attempt]

\* --------------------------------------------------------- merge engine
\* CopilotDeduplicator.generate_dedupe_key
PrimaryText(item, item_type) ==
  IF item_type = "action_items"
  THEN Get(item, "title", <<>>) \o <<" ">> \o Get(item, "description", <<>>)
  ELSE Get(item, "text", <<>>)

Normalize(text) == Strip(CollapseWhitespace(StripPunctuation(Lower(text))))

GenerateDedupeKey(item, item_type, meeting_id) ==
  <<meeting_id, item_type, Take(Normalize(PrimaryText(item, item_type)), KeyLen)>>

\* The keys of new_items in the order new_items.items() yields them: the
\* order _sanitize_output inserts them in.
KeyOrder == <<"language", "action_items", "decisions", "risks", "open_questions">>

\* The (item_type, item) pairs the two nested loops visit.  The items of a
\* string value are its characters: they are not dicts.
RECURSIVE WorkFrom(_, _)
WorkFrom(new_items, k) ==
  IF k > Len(KeyOrder) THEN <<>>
  ELSE LET key == KeyOrder[k]
           here ==
             IF key \notin DOMAIN new_items THEN <<>>
             ELSE IF key = "language"
                  THEN <<[item_type |-> key, is_dict |-> FALSE, item |-> <<>>]>>
                  ELSE [i \in 1..Len(new_items[key]) |->
                          [item_type |-> key, is_dict |-> TRUE, item |-> new_items[key][i]]]
       IN here \o WorkFrom(new_items, k + 1)

WorkList(new_items) == WorkFrom(new_items, 1)

OpenStatuses == {"proposed", "edited"}

\* existing_by_key: the row that the lookup loop leaves under key (the last
\* open row of the meeting with that key), 0 when there is none
ExistingByKey(table, meeting, key) ==
  LET hits == {i \in 1..Len(table) :
                 /\ table[i].meeting = meeting
                 /\ table[i].status \in OpenStatuses
                 /\ table[i].dedupe_key = key}
  IN IF hits = {} THEN 0 ELSE CHOOSE i \in hits : \A j \in hits : j <= i

\* combined_evidence: the existing entries, then the new ones not yet present
RECURSIVE CombineEvidence(_, _)
CombineEvidence(combined, new_evidence) ==
  IF new_evidence = <<>> THEN combined
  ELSE IF Head(new_evidence) \in Range(combined)
       THEN CombineEvidence(combined, Tail(new_evidence))
       ELSE CombineEvidence(Append(combined, Head(new_evidence)), Tail(new_evidence))

\* validator.py imports json, re, typing, ValidationError, transaction, the
\* models, uuid and logging: the name timezone that _merge_suggestion reads
\* is not bound in the module
TimezoneIsBound == FALSE

\* CopilotDeduplicator._merge_suggestion: the saved row, or the exception
MergeSuggestion(existing, new_item) ==
  LET combined == CombineEvidence(Get(existing.payload, "evidence", <<>>),
                                  Get(new_item, "evidence", <<>>))
      updated == Update(Update(existing.payload, new_item), [evidence |-> combined])
  IN IF TimezoneIsBound
     THEN [ok |-> TRUE, exc |-> "none", row |-> [existing EXCEPT !.payload = updated]]
     ELSE [ok |-> FALSE, exc |-> "NameError", row |-> existing]

DefaultConfidence == "0.8"

\* source_segment_ids of _create_suggestion
SegmentIds(evidence) ==
  LET with_id == SelectSeq(evidence, LAMBDA ev : "segment_id" \in DOMAIN ev)
  IN [i \in 1..Len(with_id) |-> with_id[i].segment_id]

\* CopilotDeduplicator._create_suggestion (status takes the column default)
CreateSuggestion(meeting, item_type, item, dedupe_key) ==
  [meeting |-> meeting,
   type |-> item_type,
   payload |-> item,
   status |-> "proposed",
   dedupe_key |-> dedupe_key,
   source_segment_ids |-> SegmentIds(Get(item, "evidence", <<>>)),
   confidence |-> Get(item, "confidence", DefaultConfidence),
   created_by |-> "ai",
   accepted_action_item |-> 0]

\* The loop of merge_or_create_suggestions from work item n on.  acc holds the
\* table as written so far inside the transaction and the rows touched.
RECURSIVE MergeLoop(_, _, _, _, _)
MergeLoop(acc, base, meeting, work, n) ==
  IF n > Len(work) THEN acc
  ELSE IF ~work[n].is_dict
  THEN [acc EXCEPT !.ok = FALSE, !.exc = "AttributeError"]
  ELSE
    LET dedupe_key == GenerateDedupeKey(work[n].item, work[n].item_type, meeting)
        existing == ExistingByKey(base, meeting, dedupe_key)
    IN IF existing # 0
       THEN LET merged == MergeSuggestion(acc.table[existing], work[n].item)
            IN IF merged.ok
               THEN MergeLoop([acc EXCEPT !.table[existing] = merged.row,
                                          !.touched = Append(@, existing)],
                              base, meeting, work, n + 1)
               ELSE [acc EXCEPT !.ok = FALSE, !.exc = merged.exc]
       ELSE MergeLoop([acc EXCEPT
                         !.table = Append(@, CreateSuggestion(meeting, work[n].item_type,
                                                              work[n].item, dedupe_key)),
                         !.touched = Append(@, Len(acc.table) + 1)],
                      base, meeting, work, n + 1)

\* CopilotDeduplicator.merge_or_create_suggestions under @transaction.atomic:
\* an exception rolls every write of the call back
MergeOrCreateSuggestions(table, meeting, new_items) ==
  LET done == MergeLoop([ok |-> TRUE, exc |-> "none", table |-> table, touched |-> <<>>],
                        table, meeting, WorkList(new_items), 1)
  IN IF done.ok THEN done
     ELSE [ok |-> FALSE, exc |-> done.exc, table |-> table, touched |-> <<>>]

\* ---------------------------------------------------------------- state
VARIABLES
  suggestions,  \* table copilot_suggestions: a row's id is its index
  runs,         \* table copilot_runs: a row's id is its index
  actionItems,  \* table action_items
  minutes,      \* the Minutes row of the meeting and its content_json lists
  segments,     \* table transcript_segments of the meeting, in created_at order
  live,         \* status of the meeting's live session ("none" when it has none)
  rowLock,      \* suggestion id -> the client whose transaction holds FOR UPDATE
  cl,           \* client -> the request it is serving
  wk,           \* worker -> the orchestration attempt it is executing
  calls,        \* the calls made of the merge engine or of the validator by itself
  response,     \* HTTP status of the request answered last (0: none yet)
  task          \* the background task run_copilot_analysis and its position

vars == <<suggestions, runs, actionItems, minutes, segments, live, rowLock, cl, wk, calls,
          response, task>>

\* no task has been sent to the queue
NoTask == [pc |-> "none", mode |-> "none", retries |-> 0, result |-> "none"]

Meeting == "m1"

Users == {"u1"}

\* -------------------------------------------------- materialization
\* DateField: a value that is neither null nor an ISO date raises at save
IsValidDate(d) == d \in {Null, "2026-01-05"}

\* Minutes.objects.get_or_create(meeting=..., defaults={'transcript':
\* meeting.transcripts.first()}): the row exists, or it is created, which
\* needs a transcript (Minutes.transcript is not nullable)
MinutesAvailable(m, segs) == m.exists \/ Len(segs) > 0

\* assignee of _create_action_item_from_suggestion
ResolveAssignee(payload) ==
  LET info == Get(payload, "assignee", [speaker_label |-> ""])
      user_id == Get(info, "user_id", Null)
  IN IF user_id # Null /\ user_id \in Users THEN user_id ELSE Null

\* CopilotOrchestrator._create_action_item_from_suggestion
CreateActionItemFromSuggestion(row, sid, items, m, segs) ==
  IF ~MinutesAvailable(m, segs)
  THEN [ok |-> FALSE, exc |-> "IntegrityError", items |-> items, m |-> m, link |-> 0]
  ELSE IF ~({"title", "description"} \subseteq DOMAIN row.payload)
  THEN [ok |-> FALSE, exc |-> "KeyError", items |-> items,
        m |-> [m EXCEPT !.exists = TRUE], link |-> 0]
  ELSE IF ~IsValidDate(Get(row.payload, "due_date", Null))
  THEN [ok |-> FALSE, exc |-> "ValidationError", items |-> items,
        m |-> [m EXCEPT !.exists = TRUE], link |-> 0]
  ELSE [ok |-> TRUE, exc |-> "none",
        items |-> Append(items,
                    [meeting |-> row.meeting,
                     title |-> row.payload.title,
                     description |-> row.payload.description,
                     assignee |-> ResolveAssignee(row.payload),
                     due_date |-> Get(row.payload, "due_date", Null),
                     priority |-> Get(row.payload, "priority", "medium"),
                     source_segment_ids |-> row.source_segment_ids]),
        m |-> [m EXCEPT !.exists = TRUE],
        link |-> Len(items) + 1]

\* _create_decision_from_suggestion, _create_risk_from_suggestion and
\* _create_question_from_suggestion: append a record to the list of the
\* minutes' content_json and save the minutes
AppendToMinutes(row, sid, user, items, m, segs, list, needed) ==
  IF ~MinutesAvailable(m, segs)
  THEN [ok |-> FALSE, exc |-> "IntegrityError", items |-> items, m |-> m, link |-> 0]
  ELSE IF ~(needed \subseteq DOMAIN row.payload)
  THEN [ok |-> FALSE, exc |-> "KeyError", items |-> items,
        m |-> [m EXCEPT !.exists = TRUE], link |-> 0]
  ELSE [ok |-> TRUE, exc |-> "none", items |-> items,
        m |-> [m EXCEPT !.exists = TRUE,
                        ![list] = Append(@, [id |-> sid, text |-> row.payload.text,
                                             evidence |-> row.payload.evidence,
                                             by |-> user])],
        link |-> 0]

\* the dispatch on suggestion.type in accept_suggestion
Materialize(row, sid, user, items, m, segs) ==
  CASE row.type = "action_item" -> CreateActionItemFromSuggestion(row, sid, items, m, segs)
    [] row.type = "decision" ->
         AppendToMinutes(row, sid, user, items, m, segs, "decisions", {"text", "evidence"})
    [] row.type = "risk" ->
         AppendToMinutes(row, sid, user, items, m, segs, "risks",
                         {"text", "severity", "evidence"})
    [] row.type = "question" ->
         AppendToMinutes(row, sid, user, items, m, segs, "open_questions",
                         {"text", "evidence"})
    [] OTHER -> [ok |-> FALSE, exc |-> "ValueError", items |-> items, m |-> m, link |-> 0]

\* a guard that refused only the rejected suggestions
NotRejected(status) == status # "rejected"

\* the guard of accept_suggestion on the row read under the lock
AcceptableStatus(status) == status = "proposed"

\* a plain read, which waits for no lock
NoRowLock(sid, c) == TRUE

\* select_for_update(): the row lock is free for client c
LockFree(sid, c) == rowLock[sid] = 0

\* an UPDATE of a row waits while another transaction holds its lock
WriteAllowed(sid, c) == rowLock[sid] \in {0, c}

\* ---------------------------------------------------------- requests
Idle == [pc |-> "idle", sug |-> 0, snap |-> <<>>, msnap |-> <<>>, payload |-> <<>>,
         data |-> <<>>]

\* the user on whose behalf client c acts
UserOf(c) == "u1"

\* views.accept, then accept_suggestion up to the status guard: the
\* transaction begins, the row is locked and read, the guard is evaluated and,
\* when it passes, the materializer reads the minutes
AcceptBegin(c, sid) ==
  /\ cl[c].pc = "idle"
  /\ sid \in 1..Len(suggestions)
  /\ LockFree(sid, c)
  /\ IF AcceptableStatus(suggestions[sid].status)
     THEN /\ rowLock' = [rowLock EXCEPT ![sid] = c]
          /\ cl' = [cl EXCEPT ![c] = [Idle EXCEPT !.pc = "accepting", !.sug = sid,
                                                  !.snap = suggestions[sid],
                                                  !.msnap = minutes]]
          /\ UNCHANGED response
     ELSE /\ response' = 400
          /\ UNCHANGED <<rowLock, cl>>
  /\ UNCHANGED <<task, suggestions, runs, actionItems, minutes, segments, live, wk, calls>>

\* a transaction that left its writes in place when its block raised
KeepWrites(committed, written) == written

\* "with transaction.atomic()" when the block raises: the writes made in it
\* (written) are undone and the table is what was committed before
Rollback(committed, written) == committed

\* accept_suggestion from the dispatch to the commit (or the rollback)
AcceptFinish(c) ==
  /\ cl[c].pc = "accepting"
  /\ LET sid == cl[c].sug
         done == Materialize(cl[c].snap, sid, UserOf(c), actionItems, cl[c].msnap, segments)
     IN /\ IF done.ok
           THEN /\ actionItems' = done.items
                /\ minutes' = done.m
                /\ suggestions' = [suggestions EXCEPT ![sid] =
                                     [cl[c].snap EXCEPT !.accepted_action_item =
                                                          IF done.link # 0 THEN done.link ELSE @,
                                                        !.status = "accepted"]]
                /\ response' = 201
           ELSE /\ actionItems' = Rollback(actionItems, done.items)
                /\ minutes' = Rollback(minutes, done.m)
                /\ UNCHANGED suggestions
                /\ response' = 400
        /\ cl' = [cl EXCEPT ![c] = Idle]
        /\ rowLock' = [rowLock EXCEPT ![sid] = 0]
  /\ UNCHANGED <<task, runs, segments, live, wk, calls>>

\* views.reject: get_object()
RejectRead(c, sid) ==
  /\ cl[c].pc = "idle"
  /\ sid \in 1..Len(suggestions)
  /\ cl' = [cl EXCEPT ![c] = [Idle EXCEPT !.pc = "rejecting", !.sug = sid,
                                          !.snap = suggestions[sid]]]
  /\ UNCHANGED <<task, suggestions, runs, actionItems, minutes, segments, live, rowLock, wk, calls,
                 response>>

\* views.reject: suggestion.save() writes every column of the object read
RejectSave(c) ==
  /\ cl[c].pc = "rejecting"
  /\ WriteAllowed(cl[c].sug, c)
  /\ suggestions' = [suggestions EXCEPT ![cl[c].sug] = [cl[c].snap EXCEPT !.status = "rejected"]]
  /\ cl' = [cl EXCEPT ![c] = Idle]
  /\ response' = 200
  /\ UNCHANGED <<task, runs, actionItems, minutes, segments, live, rowLock, wk, calls>>

\* the guard of views.edit on the object read
EditableStatus(status) == status = "proposed"

\* views.edit: get_object() and the status guard
EditRead(c, sid, payload) ==
  /\ cl[c].pc = "idle"
  /\ sid \in 1..Len(suggestions)
  /\ IF EditableStatus(suggestions[sid].status)
     THEN /\ cl' = [cl EXCEPT ![c] = [Idle EXCEPT !.pc = "editing", !.sug = sid,
                                                  !.snap = suggestions[sid],
                                                  !.payload = payload]]
          /\ UNCHANGED response
     ELSE /\ response' = 400
          /\ UNCHANGED cl
  /\ UNCHANGED <<task, suggestions, runs, actionItems, minutes, segments, live, rowLock, wk, calls>>

\* request.data.get('payload_json', suggestion.payload_json)
EditedPayload(old, payload) == IF payload.present THEN payload.value ELSE old

\* views.edit: the payload is replaced as supplied, the status set to edited,
\* and save() writes every column of the object read
EditSave(c) ==
  /\ cl[c].pc = "editing"
  /\ WriteAllowed(cl[c].sug, c)
  /\ suggestions' = [suggestions EXCEPT ![cl[c].sug] =
                       [cl[c].snap EXCEPT !.payload = EditedPayload(@, cl[c].payload),
                                          !.status = "edited"]]
  /\ cl' = [cl EXCEPT ![c] = Idle]
  /\ response' = 200
  /\ UNCHANGED <<task, runs, actionItems, minutes, segments, live, rowLock, wk, calls>>

\* PATCH suggestions/<pk>/: partial_update of the ModelViewSet.  get_object()
\* reads the row; CopilotSuggestionSerializer leaves status and payload_json
\* writable
UpdateRead(c, sid, data) ==
  /\ cl[c].pc = "idle"
  /\ sid \in 1..Len(suggestions)
  /\ cl' = [cl EXCEPT ![c] = [Idle EXCEPT !.pc = "updating", !.sug = sid,
                                          !.snap = suggestions[sid], !.data = data]]
  /\ UNCHANGED <<task, suggestions, runs, actionItems, minutes, segments, live, rowLock, wk,
                 calls, response>>

\* serializer.save(): the fields of the request are set on the object read
\* and every column is written
UpdateSave(c) ==
  /\ cl[c].pc = "updating"
  /\ WriteAllowed(cl[c].sug, c)
  /\ suggestions' = [suggestions EXCEPT ![cl[c].sug] =
                       [cl[c].snap EXCEPT !.status = cl[c].data.status]]
  /\ cl' = [cl EXCEPT ![c] = Idle]
  /\ response' = 200
  /\ UNCHANGED <<task, runs, actionItems, minutes, segments, live, rowLock, wk, calls>>

\* ------------------------------------------------------------- pipeline
IdleWorker == [pc |-> "idle", run |-> 0, mode |-> "none", attempt |-> 0,
               window |-> <<>>, output |-> <<>>]

\* Meeting.language_preference of the meeting
MeetingLanguage == "en"

\* ids of the segments with is_final=True, by position in the table
FinalIds(segs) == SelectSeq([i \in 1..Len(segs) |-> i], LAMBDA i : segs[i].is_final)

\* order_by(field) of a list of segment ids (stable on ties)
RECURSIVE SortBy(_, _, _)
SortBy(ids, segs, field) ==
  IF ids = <<>> THEN <<>>
  ELSE LET least == CHOOSE i \in 1..Len(ids) :
                      \A j \in 1..Len(ids) :
                         \/ segs[ids[i]][field] < segs[ids[j]][field]
                         \/ (segs[ids[i]][field] = segs[ids[j]][field] /\ i <= j)
       IN <<ids[least]>> \o
          SortBy([k \in 1..(Len(ids) - 1) |-> IF k < least THEN ids[k] ELSE ids[k + 1]],
                 segs, field)

\* a query without the filter is_final=True
GetAllSegments(segs) == SortBy([i \in 1..Len(segs) |-> i], segs, "start_ms")

\* CopilotOrchestrator._get_all_final_segments
GetAllFinalSegments(segs) == SortBy(FinalIds(segs), segs, "start_ms")

\* a query that took the first limit final segments by created_at
GetOldestSegments(segs, limit) ==
  LET final == SortBy(FinalIds(segs), segs, "created_at")
  IN SubSeq(final, 1, Min(limit, Len(final)))

\* CopilotOrchestrator._get_recent_segments: the limit most recent final
\* segments by created_at, returned oldest first
GetRecentSegments(segs, limit) ==
  LET final == SortBy(FinalIds(segs), segs, "created_at")
  IN SubSeq(final, Len(final) - Min(limit, Len(final)) + 1, Len(final))

NewRun(mode, segment_count) ==
  [meeting |-> Meeting, mode |-> mode, provider |-> "openai", status |-> "started",
   error_message |-> Null, segment_count |-> segment_count, suggestion_count |-> Null]

\* the except clauses around the gateway call, the validation and the merge:
\* "except LLMGatewayError" finalizes the Run, the outer "except Exception"
\* only logs
OnException(run, exc, msg) ==
  IF IsLLMGatewayError(exc)
  THEN [run EXCEPT !.status = "failed", !.error_message = msg]
  ELSE run

\* run_post_meeting_analysis up to the gateway call
StartPostMeeting(w) ==
  /\ wk[w].pc = "idle"
  /\ Len(runs) < MaxRuns
  /\ LET all_segments == GetAllFinalSegments(segments)
         run == NewRun("post_meeting", Len(all_segments))
     IN IF all_segments = <<>>
        THEN /\ runs' = Append(runs, [run EXCEPT !.status = "failed",
                                        !.error_message = "No transcript segments available"])
             /\ UNCHANGED wk
        ELSE /\ runs' = Append(runs, run)
             /\ wk' = [wk EXCEPT ![w] = [IdleWorker EXCEPT !.pc = "gateway",
                                           !.run = Len(runs) + 1, !.mode = "post_meeting",
                                           !.attempt = 1, !.window = all_segments]]

\* signals.handle_live_session_saved: the live session is saved with status
\* ended and the handler runs the post-meeting analysis
LiveSessionEnded(w) ==
  /\ live = "active"
  /\ live' = "ended"
  /\ StartPostMeeting(w)
  /\ UNCHANGED <<task, suggestions, actionItems, minutes, segments, rowLock, cl, calls, response>>

\* views.run_copilot_analysis_view with mode post_meeting
TriggerPostMeeting(w) ==
  /\ StartPostMeeting(w)
  /\ UNCHANGED <<task, suggestions, actionItems, minutes, segments, live, rowLock, cl, calls, response>>

\* The growth of the table explored: a small table grows to MaxSegments rows,
\* a table of just the size of the incremental window by one row
SegmentRoom(n) == n < MaxSegments \/ n = REALTIME_SEGMENT_COUNT

\* A final segment is created: signals.handle_transcript_segment_saved, then
\* handle_final_transcript_segment and _run_incremental_analysis up to the
\* gateway call
SegmentFinalized(w, seg) ==
  /\ wk[w].pc = "idle"
  /\ seg.is_final
  /\ SegmentRoom(Len(segments))
  /\ segments' = Append(segments, seg)
  /\ LET recent == GetRecentSegments(segments', REALTIME_SEGMENT_COUNT)
     IN IF seg.of_session /\ live = "active" /\ Len(recent) >= MinSegmentsForProcessing
        THEN /\ Len(runs) < MaxRuns
             /\ runs' = Append(runs, NewRun("realtime_incremental", Len(recent)))
             /\ wk' = [wk EXCEPT ![w] = [IdleWorker EXCEPT !.pc = "gateway",
                                           !.run = Len(runs) + 1,
                                           !.mode = "realtime_incremental",
                                           !.attempt = 1, !.window = recent]]
        ELSE UNCHANGED <<runs, wk>>
  /\ UNCHANGED <<task, suggestions, actionItems, minutes, live, rowLock, cl, calls, response>>

\* One call of the reasoning service by generate_copilot_output and what the
\* retry decorator and the orchestrator's except clauses make of it
GatewayAttempt(w, outcome) ==
  /\ wk[w].pc = "gateway"
  /\ LET body == GatewayBody(outcome, Len(wk[w].window), MeetingLanguage)
         next == RetryDecision(body.exc, wk[w].attempt)
     IN IF next.again
        THEN /\ wk' = [wk EXCEPT ![w].attempt = @ + 1]
             /\ UNCHANGED runs
        ELSE IF next.exc = "none"
        THEN /\ wk' = [wk EXCEPT ![w].pc = "process", ![w].output = body.value]
             /\ UNCHANGED runs
        ELSE /\ runs' = [runs EXCEPT ![wk[w].run] = OnException(@, next.exc, body.msg)]
             /\ wk' = [wk EXCEPT ![w] = IdleWorker]
  /\ UNCHANGED <<task, suggestions, actionItems, minutes, segments, live, rowLock, cl, calls, response>>

\* The attempt after the gateway has returned: validate_output,
\* merge_or_create_suggestions, then the Run is saved as success
ProcessOutput(w) ==
  /\ wk[w].pc = "process"
  /\ LET validated == ValidateOutput(wk[w].output)
         merged == IF validated.ok
                   THEN MergeOrCreateSuggestions(suggestions, Meeting, validated.value)
                   ELSE [ok |-> FALSE, exc |-> validated.exc, table |-> suggestions,
                         touched |-> <<>>]
     IN /\ Len(merged.table) <= MaxSuggestions
        /\ suggestions' = merged.table
        /\ IF merged.ok
           THEN /\ runs' = [runs EXCEPT ![wk[w].run] =
                              [@ EXCEPT !.suggestion_count = Len(merged.touched),
                                        !.status = "success"]]
           ELSE /\ runs' = [runs EXCEPT ![wk[w].run] = OnException(@, merged.exc, merged.exc)]
        /\ wk' = [wk EXCEPT ![w] = IdleWorker]
  /\ UNCHANGED <<task, actionItems, minutes, segments, live, rowLock, cl, calls, response>>

\* A call of CopilotDeduplicator.merge_or_create_suggestions by itself
MergeEngineCall(new_items) ==
  /\ Len(calls) < MaxCalls
  /\ LET merged == MergeOrCreateSuggestions(suggestions, Meeting, new_items)
     IN /\ Len(merged.table) <= MaxSuggestions
        /\ suggestions' = merged.table
        /\ calls' = Append(calls, [new_items |-> new_items, ok |-> merged.ok,
                                   exc |-> merged.exc, before |-> suggestions,
                                   after |-> merged.table, touched |-> merged.touched])
  /\ UNCHANGED <<task, runs, actionItems, minutes, segments, live, rowLock, cl, wk, response>>

\* ---------------------------------------------------------------- inputs
E1 == [segment_id |-> "seg1", start_ms |-> 0, end_ms |-> 1000, quote |-> <<"o", "k">>]

E2 == [segment_id |-> "seg2", start_ms |-> 1000, end_ms |-> 2000, quote |-> <<"d", "o">>]

\* an entry whose time range is empty, and one whose quote is blank
EBadRange == [segment_id |-> "seg1", start_ms |-> 1000, end_ms |-> 1000, quote |-> <<"o", "k">>]

\* "Fix!" / "it"
ActionFix ==
  [title |-> <<"F", "i", "x", "!">>, description |-> <<"i", "t">>,
   assignee |-> [speaker_label |-> "Speaker 1", user_id |-> Null, name |-> Null],
   due_date |-> Null, priority |-> "high", evidence |-> <<E1, E2>>]

\* "fix" / "it": another title, the same normalized text, other evidence
ActionFixAgain ==
  [title |-> <<"f", "i", "x">>, description |-> <<"i", "t">>,
   assignee |-> [speaker_label |-> "Speaker 1", user_id |-> Null, name |-> Null],
   due_date |-> Null, priority |-> "low", evidence |-> <<E2>>]

RiskBad == [text |-> <<"b", "a", "d">>, severity |-> "high", evidence |-> <<E1>>]

\* the same risk reported again with one more evidence entry
RiskBadAgain == [RiskBad EXCEPT !.evidence = <<E1, E2>>]

DecisionDo == [text |-> <<"d", "o", " ", "i", "t">>, evidence |-> <<E1>>]

DecisionDoubt == [text |-> <<"d", "o", "t">>, evidence |-> <<E2>>]

Clients == 1..NumClients

Workers == 1..NumWorkers

\* a row as test_copilot.py creates one: CopilotSuggestion.objects.create
SeedRow(type, payload, key) ==
  [meeting |-> Meeting, type |-> type, payload |-> payload, status |-> "proposed",
   dedupe_key |-> <<Meeting, type, key>>,
   source_segment_ids |-> SegmentIds(Get(payload, "evidence", <<>>)),
   confidence |-> "0.9", created_by |-> "ai", accepted_action_item |-> 0]

\* the assignee and the due date the seeded action item may carry
SeedActionPayloads ==
  {[ActionFix EXCEPT !.assignee.user_id = u, !.due_date = d] :
     u \in {Null, "u1", "u9"}, d \in {Null}} \cup {[ActionFix EXCEPT !.due_date = "next week"]}

\* the table holds one seeded row: an action item, or a decision
SeedTables ==
  {<<SeedRow("action_item", p, <<"f", "i", "x">>)>> : p \in SeedActionPayloads}
    \cup {<<SeedRow("decision", DecisionDo, <<"d", "o">>)>>}

\* payloads a user may send with an edit (none, or one the validator
\* would refuse)
EditPayloads ==
  {[present |-> FALSE, value |-> <<>>],
   [present |-> TRUE, value |-> [title |-> <<"f", "i", "x">>, evidence |-> <<>>]],
   [present |-> TRUE, value |-> [text |-> <<"d", "o">>, evidence |-> <<EBadRange>>]]}

\* of_session: the segment's transcript is the one of the meeting's live
\* session (transcript.live_session); a recording's transcript has none
FinalSegment(n) ==
  [start_ms |-> n * 1000, created_at |-> n, is_final |-> TRUE, of_session |-> TRUE]

FinalSegments(n) == [i \in 1..n |-> FinalSegment(i)]

NoMinutes == [exists |-> FALSE, decisions |-> <<>>, risks |-> <<>>, open_questions |-> <<>>]

\* ---------------------------------------------------- review requests
InitReview ==
  /\ suggestions \in SeedTables
  /\ runs = <<>>
  /\ actionItems = <<>>
  /\ minutes = NoMinutes
  /\ segments \in {<<>>, FinalSegments(2)}
  /\ live = "none"
  /\ rowLock = [i \in 1..MaxSuggestions |-> 0]
  /\ cl = [c \in Clients |-> Idle]
  /\ wk = [w \in Workers |-> IdleWorker]
  /\ calls = <<>>
  /\ response = 0
  /\ task = NoTask

Accept(c) == \E sid \in 1..MaxSuggestions : AcceptBegin(c, sid)

Reject(c) == \E sid \in 1..MaxSuggestions : RejectRead(c, sid)

Edit(c) == \E sid \in 1..MaxSuggestions : \E payload \in EditPayloads : EditRead(c, sid, payload)

NextReview ==
  \E c \in Clients :
     \/ Accept(c)
     \/ AcceptFinish(c)
     \/ Reject(c)
     \/ RejectSave(c)
     \/ Edit(c)
     \/ EditSave(c)

SpecReview == InitReview /\ [][NextReview]_vars

\* the body a PATCH of a suggestion carries here: status is one of the
\* serializer's writable fields
UpdateData == {[status |-> "accepted"]}

PartialUpdate(c) == \E sid \in 1..MaxSuggestions : \E data \in UpdateData : UpdateRead(c, sid, data)

\* every route of CopilotSuggestionViewSet that writes a suggestion
NextApi ==
  \E c \in Clients :
     \/ Accept(c)
     \/ AcceptFinish(c)
     \/ Reject(c)
     \/ RejectSave(c)
     \/ Edit(c)
     \/ EditSave(c)
     \/ PartialUpdate(c)
     \/ UpdateSave(c)

SpecApi == InitReview /\ [][NextApi]_vars

\* ----------------------------------------------------- orchestrated runs
\* The JSON documents the reasoning service may answer with.  DocWellFormed is
\* the object the prompt asks for: one action item with two evidence entries
\* and one risk.
DocWellFormed ==
  [language |-> "en", action_items |-> <<ActionFix>>, decisions |-> <<>>,
   risks |-> <<RiskBad>>, open_questions |-> <<>>]

\* the same with "language" written as a list
DocLanguageList == [DocWellFormed EXCEPT !.language = "[en]"]

\* without the open_questions array
DocNoQuestions ==
  [language |-> "en", action_items |-> <<ActionFix>>, decisions |-> <<>>, risks |-> <<RiskBad>>]

\* with an item that carries no evidence
DocNoEvidence == [DocLanguageList EXCEPT !.risks = <<[text |-> <<"b", "a", "d">>, severity |-> "high"]>>]

JsonText(doc) == [pre |-> <<>>, has_doc |-> TRUE, doc |-> doc, post |-> <<>>]

RawResponses ==
  {JsonText(DocWellFormed),
   JsonText(DocLanguageList),
   JsonText(DocNoQuestions),
   JsonText(DocNoEvidence),
   \* prose around the object
   [pre |-> <<"o", "k", " ">>, has_doc |-> TRUE, doc |-> DocLanguageList, post |-> <<" ", "o", "k">>],
   \* no JSON at all
   [pre |-> <<"o", "k">>, has_doc |-> FALSE, doc |-> <<>>, post |-> <<>>]}

\* what client.chat.completions.create does: it raises, or it returns a text
ServiceOutcomes ==
  {[exc |-> e, raw |-> <<>>] :
     e \in {"openai.RateLimitError", "openai.APITimeoutError", "openai.APIError", "Exception"}}
    \cup {[exc |-> "none", raw |-> r] : r \in RawResponses}

Init ==
  /\ suggestions \in {<<>>, <<SeedRow("action_item", ActionFix, <<"f", "i", "x">>)>>}
  /\ runs = <<>>
  /\ actionItems = <<>>
  /\ minutes = NoMinutes
  /\ segments \in {FinalSegments(MinSegmentsForProcessing - 1), FinalSegments(12)}
  /\ live = "active"
  /\ rowLock = [i \in 1..MaxSuggestions |-> 0]
  /\ cl = [c \in Clients |-> Idle]
  /\ wk = [w \in Workers |-> IdleWorker]
  /\ calls = <<>>
  /\ response = 0
  /\ task = NoTask

Next ==
  \E w \in Workers :
     \/ LiveSessionEnded(w)
     \/ TriggerPostMeeting(w)
     \/ SegmentFinalized(w, FinalSegment(Len(segments) + 1))
     \/ \E outcome \in ServiceOutcomes : GatewayAttempt(w, outcome)
     \/ ProcessOutput(w)

Spec == Init /\ [][Next]_vars

\* ------------------------------------------------------ the merge engine
\* The item dictionaries merge_or_create_suggestions is called with: its
\* declared argument (item type -> list of items), and the dictionary
\* validate_output returns, which also has the key "language"
EngineInputs ==
  {[action_items |-> <<ActionFix>>],
   [action_items |-> <<ActionFix, ActionFixAgain>>],
   [decisions |-> <<DecisionDo>>, risks |-> <<RiskBad>>],
   [decisions |-> <<DecisionDo, DecisionDoubt>>],
   [open_questions |-> <<DecisionDoubt>>],
   [risks |-> <<RiskBad>>],
   [risks |-> <<RiskBadAgain>>],
   SanitizeOutput(DocWellFormed)}

\* a suggestion the engine created from ActionFix and a user then edited
EditedRow ==
  [CreateSuggestion(Meeting, "action_items", ActionFix,
                    GenerateDedupeKey(ActionFix, "action_items", Meeting))
     EXCEPT !.status = "edited", !.payload.priority = "low"]

InitEngine ==
  /\ suggestions \in {<<>>, <<EditedRow>>}
  /\ runs = <<>>
  /\ actionItems = <<>>
  /\ minutes = NoMinutes
  /\ segments = FinalSegments(2)
  /\ live = "none"
  /\ rowLock = [i \in 1..MaxSuggestions |-> 0]
  /\ cl = [c \in Clients |-> Idle]
  /\ wk = [w \in Workers |-> IdleWorker]
  /\ calls = <<>>
  /\ response = 0
  /\ task = NoTask

NextEngine == \E new_items \in EngineInputs : MergeEngineCall(new_items)

SpecEngine == InitEngine /\ [][NextEngine]_vars

\* --------------------------------------------------------- the validator
\* A call of CopilotValidator.validate_output by itself
ValidateCall(output) ==
  /\ Len(calls) < MaxCalls
  /\ LET validated == ValidateOutput(output)
     IN calls' = Append(calls, [output |-> output, ok |-> validated.ok,
                                exc |-> validated.exc, value |-> validated.value])
  /\ UNCHANGED <<task, suggestions, runs, actionItems, minutes, segments, live, rowLock, cl, wk,
                 response>>

\* "fix!" / "it": the title of ActionFix in lower case
ActionFixLower == [ActionFix EXCEPT !.title = <<"f", "i", "x", "!">>]

\* The outputs validate_output is called with: the well-formed object with one
\* or two action items (titles that differ, or that differ in case only) and
\* with no, one or two decisions (texts that differ, or the same text twice)
ValidatorInputs ==
  {[DocWellFormed EXCEPT !.action_items = a, !.decisions = d] :
     a \in {<<ActionFix>>, <<ActionFix, ActionFixAgain>>, <<ActionFix, ActionFixLower>>},
     d \in {<<>>, <<DecisionDo>>, <<DecisionDo, DecisionDoubt>>, <<DecisionDo, DecisionDo>>}}

InitValidator ==
  /\ suggestions = <<>>
  /\ runs = <<>>
  /\ actionItems = <<>>
  /\ minutes = NoMinutes
  /\ segments = FinalSegments(2)
  /\ live = "none"
  /\ rowLock = [i \in 1..MaxSuggestions |-> 0]
  /\ cl = [c \in Clients |-> Idle]
  /\ wk = [w \in Workers |-> IdleWorker]
  /\ calls = <<>>
  /\ response = 0
  /\ task = NoTask

NextValidator == \E output \in ValidatorInputs : ValidateCall(output)

SpecValidator == InitValidator /\ [][NextValidator]_vars

\* the service fails with a timeout, answers with an object the gateway
\* refuses, or with one the gateway lets through
TaskOutcomes ==
  {[exc |-> "openai.APITimeoutError", raw |-> <<>>],
   [exc |-> "none", raw |-> JsonText(DocWellFormed)],
   [exc |-> "none", raw |-> JsonText(DocLanguageList)]}

\* ------------------------------------------------- the two signal handlers
\* a final segment of the transcript of an uploaded recording
\* (BatchTranscriptionService._process_results)
RecordingSegment(n) == [FinalSegment(n) EXCEPT !.of_session = FALSE]

\* The table of a live meeting with n final segments: the first segment
\* created starts after the second, and the third row is an interim
\* (non-final) segment
MixedSegments(n) ==
  [i \in 1..(n + 1) |->
     IF i = 1 THEN [FinalSegment(1) EXCEPT !.start_ms = 2000]
     ELSE IF i = 2 THEN [FinalSegment(2) EXCEPT !.start_ms = 1000]
     ELSE IF i = 3 THEN [FinalSegment(3) EXCEPT !.is_final = FALSE]
     ELSE FinalSegment(i)]

InitSignals ==
  /\ suggestions = <<>>
  /\ runs = <<>>
  /\ actionItems = <<>>
  /\ minutes = NoMinutes
  /\ segments \in {MixedSegments(MinSegmentsForProcessing - 2),
                   MixedSegments(MinSegmentsForProcessing - 1),
                   FinalSegments(REALTIME_SEGMENT_COUNT)}
  /\ live = "active"
  /\ rowLock = [i \in 1..MaxSuggestions |-> 0]
  /\ cl = [c \in Clients |-> Idle]
  /\ wk = [w \in Workers |-> IdleWorker]
  /\ calls = <<>>
  /\ response = 0
  /\ task = NoTask

NextSignals ==
  \E w \in Workers :
     \/ LiveSessionEnded(w)
     \/ SegmentFinalized(w, FinalSegment(Len(segments) + 1))
     \/ SegmentFinalized(w, RecordingSegment(Len(segments) + 1))
     \/ \E outcome \in TaskOutcomes : GatewayAttempt(w, outcome)
     \/ ProcessOutput(w)

SpecSignals == InitSignals /\ [][NextSignals]_vars

\* ------------------------------------------- explicit requests and the task
\* max_retries of the task run_copilot_analysis
TaskMaxRetries == 3

\* "if not all_segments"
\* an orchestrator that never took the list of segments for empty
NeverEmpty(all_segments) == FALSE

NoSegments(all_segments) == all_segments = <<>>

\* CopilotOrchestrator.run_post_meeting_analysis from its first line to its
\* return or to the exception it lets through, the reasoning service doing
\* outcome: the tables after it, the exception raised ("none" when it
\* returns the Run) and the number of calls of the service
RunPostMeetingAnalysis(table, rs, segs, outcome) ==
  LET all_segments == GetAllFinalSegments(segs)
      run == NewRun("post_meeting", Len(all_segments))
  IN IF NoSegments(all_segments)
     THEN [runs |-> Append(rs, [run EXCEPT !.status = "failed",
                                  !.error_message = "No transcript segments available"]),
           table |-> table, raised |-> "none", msg |-> "", gateway_calls |-> 0]
     ELSE LET out == GenerateCopilotOutput([n \in 1..StopAfterAttempt |-> outcome],
                                           Len(all_segments), MeetingLanguage, 1)
          IN IF out.exc # "none"
             THEN [runs |-> Append(rs, OnException(run, out.exc, out.msg)), table |-> table,
                   raised |-> out.exc, msg |-> out.msg, gateway_calls |-> out.attempts]
             ELSE LET validated == ValidateOutput(out.value)
                      merged == IF validated.ok
                                THEN MergeOrCreateSuggestions(table, Meeting, validated.value)
                                ELSE [ok |-> FALSE, exc |-> validated.exc, table |-> table,
                                      touched |-> <<>>]
                  IN IF merged.ok
                     THEN [runs |-> Append(rs, [run EXCEPT
                                                  !.suggestion_count = Len(merged.touched),
                                                  !.status = "success"]),
                           table |-> merged.table, raised |-> "none", msg |-> "",
                           gateway_calls |-> out.attempts]
                     ELSE [runs |-> Append(rs, OnException(run, merged.exc, merged.exc)),
                           table |-> merged.table, raised |-> merged.exc, msg |-> merged.exc,
                           gateway_calls |-> out.attempts]

\* what a caller of run_post_meeting_analysis leaves in the log of calls
AnalysisCall(done, caller) ==
  [fn |-> "run_post_meeting_analysis", caller |-> caller, run |-> Len(done.runs),
   raised |-> done.raised, gateway_calls |-> done.gateway_calls]

\* run_copilot_analysis.delay(meeting_id, mode)
Delay(mode) == [pc |-> "queued", mode |-> mode, retries |-> 0, result |-> "none"]

\* views.run_copilot_analysis_view: POST meetings/<id>/run/ with the mode of
\* the request
RunCopilotAnalysisView(mode, outcome) ==
  /\ IF mode \notin {"post_meeting", "realtime_incremental"}
     THEN /\ response' = 400
          /\ UNCHANGED <<suggestions, runs, calls, task>>
     ELSE IF mode = "post_meeting"
     THEN /\ Len(runs) < MaxRuns
          /\ LET done == RunPostMeetingAnalysis(suggestions, runs, segments, outcome)
             IN /\ Len(done.table) <= MaxSuggestions
                /\ suggestions' = done.table
                /\ runs' = done.runs
                /\ calls' = Append(calls, AnalysisCall(done, "view"))
                /\ response' = IF done.raised = "none" THEN 200 ELSE 500
          /\ UNCHANGED task
     ELSE /\ task.pc = "none"
          /\ task' = Delay(mode)
          /\ response' = 202
          /\ UNCHANGED <<suggestions, runs, calls>>
  /\ UNCHANGED <<actionItems, minutes, segments, live, rowLock, cl, wk>>

\* a producer sends the task with the default of its parameter mode
TaskSent ==
  /\ task.pc = "none"
  /\ task' = Delay("post_meeting")
  /\ UNCHANGED <<suggestions, runs, actionItems, minutes, segments, live, rowLock, cl, wk,
                 calls, response>>

\* a task that retried whatever the number of retries made
RetryAlways(retries) == TRUE

\* "if self.request.retries < self.max_retries"
RetryAllowed(retries) == retries < TaskMaxRetries

\* the Run the task creates when it gives up
SyntheticRun(mode, msg) ==
  [meeting |-> Meeting, mode |-> mode, provider |-> "unknown", status |-> "failed",
   error_message |-> msg, segment_count |-> Null, suggestion_count |-> Null]

\* One execution of tasks.run_copilot_analysis by a queue worker
RunCopilotAnalysisTask(outcome) ==
  /\ task.pc = "queued"
  /\ IF task.mode = "post_meeting"
     THEN LET done == RunPostMeetingAnalysis(suggestions, runs, segments, outcome)
          IN /\ Len(done.table) <= MaxSuggestions
             /\ suggestions' = done.table
             /\ calls' = Append(calls, AnalysisCall(done, "task"))
             /\ IF done.raised = "none"
                THEN /\ runs' = done.runs
                     /\ task' = [task EXCEPT !.pc = "done", !.result = "completed"]
                ELSE IF RetryAllowed(task.retries)
                THEN /\ runs' = done.runs
                     /\ task' = [task EXCEPT !.retries = @ + 1]
                ELSE /\ runs' = Append(done.runs, SyntheticRun(task.mode, done.msg))
                     /\ task' = [task EXCEPT !.pc = "done", !.result = "failed"]
     ELSE /\ task' = [task EXCEPT !.pc = "done", !.result = "triggered"]
          /\ UNCHANGED <<suggestions, runs, calls>>
  /\ UNCHANGED <<actionItems, minutes, segments, live, rowLock, cl, wk, response>>

\* the values of "mode" a request may carry
RequestModes == {"post_meeting", "realtime_incremental", "other"}

\* the table of a meeting of which only an interim segment was stored
InterimSegments == <<[FinalSegment(1) EXCEPT !.is_final = FALSE]>>

InitTask ==
  /\ suggestions = <<>>
  /\ runs = <<>>
  /\ actionItems = <<>>
  /\ minutes = NoMinutes
  /\ segments \in {<<>>, InterimSegments, FinalSegments(2)}
  /\ live = "none"
  /\ rowLock = [i \in 1..MaxSuggestions |-> 0]
  /\ cl = [c \in Clients |-> Idle]
  /\ wk = [w \in Workers |-> IdleWorker]
  /\ calls = <<>>
  /\ response = 0
  /\ task = NoTask

NextTask ==
  \/ \E mode \in RequestModes, outcome \in TaskOutcomes : RunCopilotAnalysisView(mode, outcome)
  \/ TaskSent
  \/ \E outcome \in TaskOutcomes : RunCopilotAnalysisTask(outcome)

SpecTask == InitTask /\ [][NextTask]_vars

\* ------------------------------------------------------------ the gateway
\* A call of llm_gateway.generate_copilot_output by itself, the reasoning
\* service doing the same at every call the gateway makes of it
GenerateCall(outcome, language) ==
  /\ Len(calls) < MaxCalls
  /\ LET out == GenerateCopilotOutput([n \in 1..StopAfterAttempt |-> outcome], 1, language, 1)
     IN calls' = Append(calls, [outcome |-> outcome, language |-> language,
                                exc |-> out.exc, msg |-> out.msg, value |-> out.value,
                                prompt |-> out.prompt, system |-> out.system,
                                attempts |-> out.attempts])
  /\ UNCHANGED <<task, suggestions, runs, actionItems, minutes, segments, live, rowLock, cl, wk,
                 response>>

\* a stray '{' before the object: neither the text nor the substring from the
\* first '{' to the last '}' is JSON
RawStrayBrace == [pre |-> <<"{">>, has_doc |-> TRUE, doc |-> DocLanguageList, post |-> <<>>]

\* The calls made of the gateway: every outcome of the service for a meeting
\* in English, and the well-formed answer for the other language preferences
GatewayInputs ==
  {<<outcome, "en">> : outcome \in ServiceOutcomes \cup {[exc |-> "none", raw |-> RawStrayBrace]}}
    \cup {<<[exc |-> "none", raw |-> JsonText(DocWellFormed)], l>> : l \in LanguagePreference}

InitGateway ==
  /\ suggestions = <<>>
  /\ runs = <<>>
  /\ actionItems = <<>>
  /\ minutes = NoMinutes
  /\ segments = FinalSegments(1)
  /\ live = "none"
  /\ rowLock = [i \in 1..MaxSuggestions |-> 0]
  /\ cl = [c \in Clients |-> Idle]
  /\ wk = [w \in Workers |-> IdleWorker]
  /\ calls = <<>>
  /\ response = 0
  /\ task = NoTask

NextGateway == \E input \in GatewayInputs : GenerateCall(input[1], input[2])

SpecGateway == InitGateway /\ [][NextGateway]_vars

\* --------------------------------------------------------------- claims
\* an evidence entry with start_ms < end_ms and a non-empty quote
EvidenceEntryValid(e) ==
  /\ {"start_ms", "end_ms", "quote"} \subseteq DOMAIN e
  /\ e.start_ms < e.end_ms
  /\ e.quote # <<>>

\* C1: every persisted suggestion's payload has a non-empty evidence list
\* whose entries all have start_ms < end_ms and a non-empty quote
C1_EvidenceInvariant ==
  \A i \in 1..Len(suggestions) :
     LET payload == suggestions[i].payload
     IN /\ "evidence" \in DOMAIN payload
        /\ payload.evidence # <<>>
        /\ \A k \in 1..Len(payload.evidence) : EvidenceEntryValid(payload.evidence[k])

\* C2: within the meeting no two suggestions in status proposed or edited
\* have the same dedupe_key
C2_DedupeKeyUnique ==
  \A i, j \in 1..Len(suggestions) :
     (/\ i # j
      /\ suggestions[i].meeting = suggestions[j].meeting
      /\ suggestions[i].status \in OpenStatuses
      /\ suggestions[j].status \in OpenStatuses)
       => suggestions[i].dedupe_key # suggestions[j].dedupe_key

\* the items of a dictionary given to merge_or_create_suggestions
ItemCount(new_items) ==
  LET Count(name) == IF name \in DOMAIN new_items THEN Len(new_items[name]) ELSE 0
  IN Count("action_items") + Count("decisions") + Count("risks") + Count("open_questions")

\* C3: when merge_or_create_suggestions is called twice in a row with the same
\* dictionary, the second call returns having merged every item into an
\* existing suggestion, and the number of suggestions is what it was after the
\* first call
C3_DedupeIdempotent ==
  \A n \in 1..(Len(calls) - 1) :
     (calls[n + 1].new_items = calls[n].new_items /\ calls[n + 1].before = calls[n].after)
       => /\ calls[n + 1].ok
          /\ Len(calls[n + 1].after) = Len(calls[n].after)
          /\ Len(calls[n + 1].touched) = ItemCount(calls[n + 1].new_items)
          /\ \A k \in 1..Len(calls[n + 1].touched) :
                calls[n + 1].touched[k] \in 1..Len(calls[n].after)

\* the Run of attempt r is being executed by a worker
InProgress(r) == \E w \in Workers : wk[w].pc # "idle" /\ wk[w].run = r

\* C4: every Run is finalized: a Run whose attempt is over has left the status
\* started for success, failed or timeout
C4_RunFinalized ==
  \A r \in 1..Len(runs) : ~InProgress(r) => runs[r].status \in {"success", "failed", "timeout"}

\* the reasoning service does not answer in time
TimeoutOutcome == [exc |-> "openai.APITimeoutError", raw |-> <<>>]

\* C5: when the gateway call of a run ends in a timeout failure, the Run is
\* saved as failed with a non-empty error_message, the attempt is over and no
\* suggestion has been created or modified
C5_TimeoutIsolation ==
  [][\A w \in Workers :
       (GatewayAttempt(w, TimeoutOutcome) /\ wk'[w].pc # "gateway")
         => /\ runs'[wk[w].run].status = "failed"
            /\ runs'[wk[w].run].error_message \notin {Null, ""}
            /\ wk'[w].pc = "idle"
            /\ suggestions' = suggestions]_vars

\* a Run has failed on a timeout of the reasoning service and its attempt is over
C5_Witness ==
  \E r \in 1..Len(runs) :
     /\ runs[r].status = "failed"
     /\ runs[r].error_message = "Request timeout"
     /\ ~InProgress(r)

\* C6: when validate_output rejects the output the gateway returned, the Run
\* of the attempt is saved as failed with the reason, and no suggestion is
\* created or modified
C6_RejectedOutputFailsRun ==
  [][\A w \in Workers :
       (wk[w].pc = "process" /\ wk'[w].pc # "process" /\ ~ValidateOutput(wk[w].output).ok)
         => /\ runs'[wk[w].run].status = "failed"
            /\ runs'[wk[w].run].error_message # Null
            /\ suggestions' = suggestions]_vars

WellFormedOutcome == [exc |-> "none", raw |-> JsonText(DocWellFormed)]

\* C8: with 12 final segments and no suggestion, when the service answers with
\* the well-formed object the run passes the gateway, and the step after it
\* leaves exactly 2 suggestions, both proposed, and the Run success with
\* suggestion_count 2
C8_EndToEnd ==
  [][\A w \in Workers :
       /\ (GatewayAttempt(w, WellFormedOutcome) /\ Len(wk[w].window) = 12 /\ suggestions = <<>>)
            => (wk'[w].pc = "process" /\ runs'[wk[w].run].status = "started")
       /\ (/\ wk[w].pc = "process"
           /\ wk'[w].pc # "process"
           /\ wk[w].output = GatewayBody(WellFormedOutcome, 12, MeetingLanguage).value
           /\ suggestions = <<>>)
            => /\ Len(suggestions') = 2
               /\ \A i \in 1..Len(suggestions') : suggestions'[i].status = "proposed"
               /\ runs'[wk[w].run].status = "success"
               /\ runs'[wk[w].run].suggestion_count = 2]_vars

\* the payload has the keys the materializer reads and a due date the column
\* takes, and the meeting has minutes or a transcript to create them from
Materializable(row, m, segs) ==
  /\ MinutesAvailable(m, segs)
  /\ {"title", "description", "assignee", "priority"} \subseteq DOMAIN row.payload
  /\ "user_id" \in DOMAIN row.payload.assignee
  /\ IsValidDate(Get(row.payload, "due_date", Null))

Entities ==
  Len(actionItems) + Len(minutes.decisions) + Len(minutes.risks) + Len(minutes.open_questions)

\* C10: whatever the interleaving of the accept calls on the one suggestion of
\* the meeting, at most one durable entity has been made from it
C10_NoDoubleMaterialization == Len(suggestions) = 1 => Entities <= 1

\* the decision was appended to the minutes once, and a call that came after
\* was refused
C10_Witness ==
  /\ Len(minutes.decisions) = 1
  /\ Entities = 1
  /\ suggestions[1].status = "accepted"
  /\ response = 400

\* C11: an accept whose materialization fails leaves the suggestion, the
\* action items and the minutes as they were, and a suggestion becomes
\* accepted only in a step that makes exactly one durable entity
C11_AcceptAllOrNothing ==
  [][/\ \A c \in Clients :
          (/\ cl[c].pc = "accepting"
           /\ cl'[c].pc = "idle"
           /\ ~Materialize(cl[c].snap, cl[c].sug, UserOf(c), actionItems, cl[c].msnap,
                           segments).ok)
            => /\ <<suggestions, actionItems, minutes>>' = <<suggestions, actionItems, minutes>>
               /\ suggestions'[cl[c].sug].status # "accepted"
     /\ \A sid \in 1..Len(suggestions) :
          (suggestions[sid].status # "accepted" /\ suggestions'[sid].status = "accepted")
            => Entities' = Entities + 1]_vars

\* an accept of the proposed suggestion has failed after the minutes had been
\* created for it: nothing of it is left
C11_Witness ==
  /\ response = 400
  /\ suggestions[1].status = "proposed"
  /\ segments # <<>>
  /\ Entities = 0
  /\ ~minutes.exists

\* C12: a suggestion in status accepted keeps its status and its payload in
\* every step (accept, reject, edit or run)
C12_AcceptedImmutable ==
  [][\A sid \in 1..Len(suggestions) :
       suggestions[sid].status = "accepted"
         => /\ suggestions'[sid].status = "accepted"
            /\ suggestions'[sid].payload = suggestions[sid].payload]_vars

\* C13: a suggestion in status rejected keeps that status in every step and
\* no step makes a durable entity from it
C13_RejectedTerminal ==
  [][\A sid \in 1..Len(suggestions) :
       suggestions[sid].status = "rejected"
         => /\ suggestions'[sid].status = "rejected"
            /\ suggestions'[sid].accepted_action_item = suggestions[sid].accepted_action_item]_vars

\* C14: at no instant are two orchestration attempts for the same meeting in
\* progress
C14_OneAttemptPerMeeting ==
  \A w1, w2 \in Workers :
     (/\ wk[w1].pc # "idle"
      /\ wk[w2].pc # "idle"
      /\ runs[wk[w1].run].meeting = runs[wk[w2].run].meeting)
       => w1 = w2

\* the reasoning service refuses the call for its rate limit
RateLimitOutcome == [exc |-> "openai.RateLimitError", raw |-> <<>>]

\* C15: when a call of the reasoning service fails with a rate-limit or a
\* timeout failure before the third attempt, generate_copilot_output calls the
\* service again; the failure reaches the orchestrator only from the third
\* attempt
C15_GatewayRetries ==
  [][\A w \in Workers : \A outcome \in {RateLimitOutcome, TimeoutOutcome} :
       (GatewayAttempt(w, outcome) /\ wk[w].attempt < StopAfterAttempt)
         => /\ wk'[w].pc = "gateway"
            /\ wk'[w].attempt = wk[w].attempt + 1
            /\ runs' = runs]_vars

\* what the service does in a call that fails in another way than by a rate
\* limit or a timeout: an API error (authentication, bad request, server
\* error), any other exception, or a text that is not the JSON object asked for
OtherFailures ==
  {o \in ServiceOutcomes :
     \/ o.exc \in {"openai.APIError", "Exception"}
     \/ (o.exc = "none" /\ ~ParseAndValidateOutput(o.raw).ok)}

\* C16: a call of the reasoning service that fails in another way than by a
\* rate limit or a timeout is not repeated: the attempt ends with that one
\* call and the orchestrator gets a gateway failure, which it records on the Run
C16_OtherFailuresNotRetried ==
  [][\A w \in Workers : \A outcome \in OtherFailures :
       GatewayAttempt(w, outcome)
         => /\ wk[w].attempt = 1
            /\ wk'[w].pc = "idle"
            /\ runs'[wk[w].run].status = "failed"
            /\ runs'[wk[w].run].error_message \in {"API error", "Unexpected error"}]_vars

\* a Run has failed on an API error of the service, another on a response
\* that could not be used, and both attempts are over
C16_Witness ==
  \E r1, r2 \in 1..Len(runs) :
     /\ runs[r1].status = "failed" /\ runs[r1].error_message = "API error"
     /\ runs[r2].status = "failed" /\ runs[r2].error_message = "Unexpected error"
     /\ ~InProgress(r1) /\ ~InProgress(r2)

\* the row a call of the engine with a single item finds under the item's
\* key among the open suggestions of the meeting (0: none, or not such a call)
MatchedRow(call) ==
  LET work == WorkList(call.new_items)
  IN IF Len(work) = 1 /\ work[1].is_dict
     THEN ExistingByKey(call.before, Meeting,
                        GenerateDedupeKey(work[1].item, work[1].item_type, Meeting))
     ELSE 0

\* C17: a call whose item has the dedupe_key of an existing open suggestion
\* stores in that suggestion the existing evidence entries in their order,
\* followed by the new entries not equal to one already present
C17_MergeEvidenceUnion ==
  \A n \in 1..Len(calls) :
     LET e == MatchedRow(calls[n])
         new_item == WorkList(calls[n].new_items)[1].item
     IN e # 0
          => /\ calls[n].ok
             /\ calls[n].after[e].payload.evidence =
                  CombineEvidence(calls[n].before[e].payload.evidence, new_item.evidence)

\* C18: a call whose item has the dedupe_key of an existing open suggestion
\* merges it in place: that suggestion is the one returned, no row is added,
\* and its status, dedupe_key, type and created_by are what they were
C18_MergeFrame ==
  \A n \in 1..Len(calls) :
     LET e == MatchedRow(calls[n])
     IN e # 0
          => /\ calls[n].touched = <<e>>
             /\ Len(calls[n].after) = Len(calls[n].before)
             /\ \A f \in {"status", "dedupe_key", "type", "created_by"} :
                   calls[n].after[e][f] = calls[n].before[e][f]

\* CopilotSuggestion.SuggestionType
SuggestionTypes == {"action_item", "decision", "risk", "question"}

\* C19: every suggestion a call of the merge engine has created or merged has
\* a type among action_item, decision, risk and question
C19_PersistedTypes ==
  \A n \in 1..Len(calls) :
     \A k \in 1..Len(calls[n].touched) :
        calls[n].after[calls[n].touched[k]].type \in SuggestionTypes

\* the text the duplicate rule is about: the title of an action item, the
\* text of a decision, a risk or an open question
RuleText(item, item_type) ==
  IF item_type = "action_items" THEN Get(item, "title", <<>>) ELSE Get(item, "text", <<>>)

\* two items of one type have the same title or text up to case
HasDuplicate(output) ==
  \E a \in 1..Len(ItemArrays) :
     \E i, j \in 1..Len(output[ItemArrays[a]]) :
        /\ i # j
        /\ Lower(RuleText(output[ItemArrays[a]][i], ItemArrays[a]))
             = Lower(RuleText(output[ItemArrays[a]][j], ItemArrays[a]))

\* C20: validate_output refuses an output that passes the schema checks
\* exactly when two of its items of one type have the same title (action
\* items) or text (decisions, risks, open questions) up to case
C20_DuplicateRule ==
  \A n \in 1..Len(calls) :
     ValidateSchema(calls[n].output) => (calls[n].ok <=> ~HasDuplicate(calls[n].output))

\* C21: the prompt builder signals a caller error for every language other
\* than en and fr (for instance the preference auto) and builds no prompt
C21_UnsupportedLanguageRefused ==
  \A n \in 1..Len(calls) :
     calls[n].language \notin {"en", "fr"} => calls[n].prompt.exc # "none"

\* C22: a trigger-run request with mode realtime_incremental creates a Run
\* with mode realtime_incremental, as a request with mode post_meeting creates
\* a post-meeting Run
C22_TriggerStartsChosenMode ==
  (task.mode = "realtime_incremental" /\ task.pc = "done")
    => \E r \in 1..Len(runs) : runs[r].mode = "realtime_incremental"

\* the ids of the final segments of a table
FinalSet(segs) == {i \in 1..Len(segs) : segs[i].is_final}

\* win lists every final segment of segs once, in the order of field
ListsFinalBy(win, segs, field) ==
  /\ Len(win) = Cardinality(FinalSet(segs))
  /\ Range(win) = FinalSet(segs)
  /\ \A i, j \in 1..Len(win) : i < j => segs[win[i]][field] <= segs[win[j]][field]

\* C23: when the live session becomes ended a post-meeting Run is created
\* for the meeting, and the window the gateway is given is the list of all
\* the final segments of the meeting, and no other, in the order of start_ms
C23_SessionEndStartsPostMeeting ==
  [][(live = "active" /\ live' = "ended")
       => /\ Len(runs') = Len(runs) + 1
          /\ runs'[Len(runs')].mode = "post_meeting"
          /\ runs'[Len(runs')].segment_count = Cardinality(FinalSet(segments))
          /\ \A w \in Workers :
                wk'[w] # wk[w]
                  => /\ wk'[w].pc = "gateway"
                     /\ wk'[w].run = Len(runs')
                     /\ ListsFinalBy(wk'[w].window, segments, "start_ms")
          /\ FinalSet(segments) # {} => \E w \in Workers : wk'[w] # wk[w]]_vars

\* the live session has ended and a worker holds the window of the
\* post-meeting Run: ten final segments, the interim segment left out, the
\* second segment created listed before the first
C23_Witness ==
  /\ live = "ended"
  /\ \E w \in Workers :
        /\ wk[w].pc = "gateway"
        /\ wk[w].mode = "post_meeting"
        /\ Len(wk[w].window) = MinSegmentsForProcessing
        /\ wk[w].window[1] = 2
        /\ wk[w].window[2] = 1
        /\ 3 \notin Range(wk[w].window)

\* win lists the (at most limit) final segments of segs created last, oldest
\* first
ListsRecentFinal(win, segs, limit) ==
  /\ Len(win) = Min(limit, Cardinality(FinalSet(segs)))
  /\ Range(win) \subseteq FinalSet(segs)
  /\ \A i, j \in 1..Len(win) : i < j => segs[win[i]].created_at < segs[win[j]].created_at
  /\ \A k \in FinalSet(segs) \ Range(win) :
        \A i \in 1..Len(win) : segs[k].created_at <= segs[win[i]].created_at

Parsed(call) ==
  /\ call.outcome.exc = "none"
  /\ DirectParseOk(call.outcome.raw) \/ ExtractParseOk(call.outcome.raw)

\* a required array is missing, or an item has no evidence
MissingArrayOrEvidence(doc) ==
  \/ \E a \in 1..Len(ItemArrays) : ItemArrays[a] \notin DOMAIN doc
  \/ \E a \in 1..Len(ItemArrays) :
        /\ ItemArrays[a] \in DOMAIN doc
        /\ \E i \in 1..Len(doc[ItemArrays[a]]) :
              Get(doc[ItemArrays[a]][i], "evidence", <<>>) = <<>>

\* C25: a parsed response that misses a required array or has an item without
\* evidence fails at the gateway, and every parsed response that passes the
\* validator's schema checks is returned by the gateway
C25_GatewayChecksAsValidator ==
  \A n \in 1..Len(calls) :
     Parsed(calls[n])
       => /\ MissingArrayOrEvidence(calls[n].outcome.raw.doc) => calls[n].exc # "none"
          /\ ValidateSchema(calls[n].outcome.raw.doc) => calls[n].exc = "none"

\* C26: when neither the text nor its substring from the first '{' to the
\* last '}' is JSON, the gateway raises a failure of a class of its own,
\* none of the generic, rate-limit and timeout failures
C26_MalformedIsDistinct ==
  \A n \in 1..Len(calls) :
     (calls[n].outcome.exc = "none" /\ ~Parsed(calls[n]))
       => /\ calls[n].exc # "none"
          /\ calls[n].exc \notin {"LLMGatewayError", "LLMRateLimitError", "LLMTimeoutError"}

\* the executions of the task that called run_post_meeting_analysis
TaskAttempts(log) == {n \in 1..Len(log) : log[n].caller = "task"}

C28_SourceSegmentsFollowEvidence ==
  \A n \in 1..Len(calls) :
     /\ \A k \in 1..Len(calls[n].after) :
           calls[n].after[k].source_segment_ids
             = SegmentIds(Get(calls[n].after[k].payload, "evidence", <<>>))
     /\ LET e == MatchedRow(calls[n])
            new_item == WorkList(calls[n].new_items)[1].item
        IN e # 0
             => calls[n].after[e].source_segment_ids
                  = SegmentIds(CombineEvidence(calls[n].before[e].payload.evidence,
                                               new_item.evidence))

\* C29: a suggestion in status edited does not become accepted: an accept of
\* it is refused and changes nothing, an edit of it is refused, and the only
\* other status it takes is rejected
C29_EditedNeverAccepted ==
  [][\A sid \in 1..Len(suggestions) :
       suggestions[sid].status = "edited"
         => /\ suggestions'[sid].status \in {"edited", "rejected"}
            /\ \A c \in Clients :
                  /\ AcceptBegin(c, sid)
                       => /\ response' = 400
                          /\ <<suggestions, actionItems, minutes, cl>>'
                               = <<suggestions, actionItems, minutes, cl>>
                  /\ (\E payload \in EditPayloads : EditRead(c, sid, payload))
                       => /\ response' = 400
                          /\ <<suggestions, cl>>' = <<suggestions, cl>>]_vars

\* C30: a post-meeting analysis of a meeting with no final segment adds one
\* Run, post_meeting with segment_count 0, failed with the message 'No
\* transcript segments available'; it raises nothing, calls the reasoning
\* service not once and leaves every suggestion as it was
C30_NoSegmentsFailsRun ==
  [][(/\ GetAllFinalSegments(segments) = <<>>
      /\ Len(calls') = Len(calls) + 1
      /\ calls'[Len(calls')].fn = "run_post_meeting_analysis")
       => /\ Len(runs') = Len(runs) + 1
          /\ SubSeq(runs', 1, Len(runs)) = runs
          /\ calls'[Len(calls')].run = Len(runs')
          /\ runs'[Len(runs')].mode = "post_meeting"
          /\ runs'[Len(runs')].segment_count = 0
          /\ runs'[Len(runs')].status = "failed"
          /\ runs'[Len(runs')].error_message = "No transcript segments available"
          /\ calls'[Len(calls')].raised = "none"
          /\ calls'[Len(calls')].gateway_calls = 0
          /\ suggestions' = suggestions]_vars

\* both the request and the task have analysed a meeting whose only stored
\* segment is interim: two failed Runs, no call of the service, no suggestion
C30_Witness ==
  /\ segments = InterimSegments
  /\ \E n, m \in 1..Len(calls) :
        /\ calls[n].caller = "view"
        /\ calls[m].caller = "task"
        /\ calls[n].gateway_calls = 0
        /\ calls[m].gateway_calls = 0
        /\ runs[calls[n].run].error_message = "No transcript segments available"
        /\ runs[calls[m].run].error_message = "No transcript segments available"
  /\ suggestions = <<>>

====
